---- MODULE Spec2Model ----
(***************************************************************************)
(* The tool-dispatch gateway of the MCP server: class Tools (the registry, *)
(* the list-tools handler and the call-tool handler with its               *)
(* handler-vs-timer Promise.race), in the four variants of tools.ts found  *)
(* in the repository.                                                      *)
(*                                                                         *)
(* One step of the model is one run-to-completion turn of the JavaScript   *)
(* event loop: the synchronous part of the call-tool handler up to its     *)
(* await, the settlement of a tool function, the firing of a timer, and    *)
(* the continuation of the call-tool handler after its await.              *)
(***************************************************************************)
EXTENDS Integers, Sequences, FiniteSets, TLC

\* number of call-tool requests that may be in flight together
NumDispatches == 2

Dispatches == 1..NumDispatches

(***************************************************************************)
(* The variants of class Tools.                                            *)
(*   registry6  : src/mcp/mcp/tools/tools.ts   (this.tools map, 1000 ms)   *)
(*   registry18 : src/unnamed/part_005:46-143  (this.tools map, 30000 ms)  *)
(*   switch6    : src/mcp/tools/tools.ts       (executeCall switch)        *)
(*   switch1    : src/unnamed/part_005:158-241 (executeCall switch)        *)
(***************************************************************************)
Impls == {"registry6", "registry18", "switch6", "switch1"}

UsesRegistry(i) == i \in {"registry6", "registry18"}

\* addTools: the keys of this.tools, in insertion order
Registry6 ==
    << "create_user", "read_file", "write_file", "get_project_context",
       "get_file_structure", "search_codebase" >>

Registry18 ==
    << "create_user", "update_user", "delete_user", "get_user", "list_users",
       "create_task", "update_task", "delete_task", "get_task", "list_tasks",
       "read_file", "write_file", "delete_file", "analyse_file",
       "get_file_structure", "search_codebase",
       "get_project_context", "get_coding_standards" >>

\* executeCall: the case labels of the switch
SwitchCases6 ==
    << "create_user", "read_file", "write_file", "get_project_context",
       "get_file_structure", "search_codebase" >>

SwitchCases1 == << "create_user" >>

Range(s) == { s[k] : k \in 1..Len(s) }

\* the names the variant resolves to a tool function
ToolNames(i) ==
    CASE i = "registry6"  -> Range(Registry6)
      [] i = "registry18" -> Range(Registry18)
      [] i = "switch6"    -> Range(SwitchCases6)
      [] i = "switch1"    -> Range(SwitchCases1)

\* the tool function each name is paired with (addTools, executeCall)
FunctionOf(n) ==
    CASE n = "create_user"          -> "userCreate"
      [] n = "update_user"          -> "updateUser"
      [] n = "delete_user"          -> "deleteUser"
      [] n = "get_user"             -> "getUser"
      [] n = "list_users"           -> "listUsers"
      [] n = "create_task"          -> "createTask"
      [] n = "update_task"          -> "updateTask"
      [] n = "delete_task"          -> "deleteTask"
      [] n = "get_task"             -> "getTask"
      [] n = "list_tasks"           -> "listTasks"
      [] n = "read_file"            -> "readFile"
      [] n = "write_file"           -> "writeFile"
      [] n = "delete_file"          -> "deleteFile"
      [] n = "analyse_file"         -> "analyseFile"
      [] n = "get_file_structure"   -> "getFileStructure"
      [] n = "search_codebase"      -> "searchCodebase"
      [] n = "get_project_context"  -> "getProjectContext"
      [] n = "get_coding_standards" -> "getCodingStandards"

\* a registry in which one descriptor was copied from another tool
EntryMisnamed(n) ==
    [name |-> n, meta |-> IF n = "read_file" THEN "write_file" ELSE n,
     fn |-> FunctionOf(n)]

\* key: [toolMeta, toolFunction]; meta is the name the descriptor carries
Entry(n) == [name |-> n, meta |-> n, fn |-> FunctionOf(n)]

\* a constructor that would leave the registry to be filled later
AddToolsLater(i) == << >>

\* addTools: this.tools = { key: [meta, function], .. }; the class variants
\* without a registry have no this.tools
AddTools(i) ==
    CASE i = "registry6"  -> [k \in 1..Len(Registry6) |-> Entry(Registry6[k])]
      [] i = "registry18" -> [k \in 1..Len(Registry18) |-> Entry(Registry18[k])]
      [] OTHER            -> << >>

\* the tools: [..] literal of listSchema in the executeCall variants
ListLiteral6 ==
    << "create_user", "read_file", "write_file", "get_project_context",
       "get_file_structure", "search_codebase" >>

ListLiteral1 == << "create_user" >>

\* a list-tools handler that would list the descriptors last to first
ListSchemaReversed(i, t) ==
    LET l == CASE i = "switch6" -> ListLiteral6
               [] i = "switch1" -> ListLiteral1
               [] OTHER         -> [k \in 1..Len(t) |-> t[k].meta]
    IN  [k \in 1..Len(l) |-> l[Len(l) + 1 - k]]

\* listSchema: Object.values(this.tools).map(([toolMeta]) => toolMeta), the
\* values coming in insertion order; or the literal list
ListSchema(i, t) ==
    CASE i = "switch6" -> ListLiteral6
      [] i = "switch1" -> ListLiteral1
      [] OTHER         -> [k \in 1..Len(t) |-> t[k].meta]

\* this.tools is a plain object: a name that is no key of its own is looked
\* up on Object.prototype
ObjectPrototypeKeys ==
    {"constructor", "toString", "valueOf", "hasOwnProperty", "__proto__"}

\* this.tools[name]: the entry under the key, else what Object.prototype
\* has under that name, else undefined
Lookup(t, n) ==
    IF \E k \in 1..Len(t) : t[k].name = n
    THEN LET k == CHOOSE x \in 1..Len(t) : t[x].name = n
         IN  [kind |-> "entry", fn |-> t[k].fn]
    ELSE IF n \in ObjectPrototypeKeys
         THEN [kind |-> "inherited", fn |-> "none"]
         ELSE [kind |-> "undefined", fn |-> "none"]

\* switch (name) { case ..: return await fn(args); default: throw .. }
Switch(i, n) ==
    IF n \in ToolNames(i)
    THEN [kind |-> "entry", fn |-> FunctionOf(n)]
    ELSE [kind |-> "undefined", fn |-> "none"]

\* what the call-tool handler finds under the requested name
Resolve(i, t, n) == IF UsesRegistry(i) THEN Lookup(t, n) ELSE Switch(i, n)

\* a lookup that would create the entry it did not find
AfterLookupCreated(t, n) ==
    IF \E k \in 1..Len(t) : t[k].name = n THEN t
    ELSE Append(t, [name |-> n, meta |-> n, fn |-> "none"])

\* const toolEntry = this.tools[name] reads the registry and assigns nothing
AfterLookup(t, n) == t

\* the request handlers the constructor installs with setRequestHandler
RequestHandlers == {"tools/list", "tools/call"}

\* the delay given to setTimeout, in milliseconds
TimeoutMs(i) == IF i = "registry18" THEN 30000 ELSE 1000

\* a timer: not created, armed by setTimeout(.., ms), or fired
NoTimer    == [state |-> "none", ms |-> 0]
Armed(ms)  == [state |-> "armed", ms |-> ms]
Fired(t)   == [state |-> "fired", ms |-> t.ms]

(***************************************************************************)
(* Values.                                                                 *)
(***************************************************************************)
NoValue == [kind |-> "none"]

\* request.params.arguments
Undefined   == [kind |-> "undefined", keys |-> {}]
EmptyObject == [kind |-> "object", keys |-> {}]
SomeObject  == [kind |-> "object", keys |-> {"email"}]
ArgValues   == {Undefined, EmptyObject, SomeObject}

\* JavaScript truthiness of an arguments value: every object is truthy
Truthy(v) == v.kind = "object"

\* the names a call-tool request may carry
RequestNames == {"create_user", "delete_user", "nonexistent", "constructor"}

NoRequest == [kind |-> "none"]
Request(n, a) == [kind |-> "request", name |-> n, arguments |-> a]

\* {content: [{type: "text", text: t}]}
TextEnvelope(t) == [kind |-> "envelope", content |-> << [type |-> "text", text |-> t] >>]

\* what a tool function may resolve with: a success envelope, or an
\* error-shaped envelope such as readFile returns from its catch block
OkText == "{\"success\": true}"
ErrorShapedText == "{\"error\": \"Failed to read a.txt: ENOENT\"}"
HandlerValues == { TextEnvelope(OkText), TextEnvelope(ErrorShapedText) }

\* the messages of the errors a tool function may reject with
HandlerMessages == {"X"}

ErrorOf(m) == [kind |-> "error", type |-> "Error", code |-> "none", message |-> m]

\* new McpError(ErrorCode.MethodNotFound, `Unknown tool: ${name}`)
UnknownTool(n) ==
    [kind |-> "error", type |-> "McpError", code |-> "MethodNotFound",
     message |-> "Unknown tool: " \o n]

\* const [, toolFunction] = toolEntry with a toolEntry that is no array
NotIterable ==
    [kind |-> "error", type |-> "TypeError", code |-> "none",
     message |-> "toolEntry is not iterable"]

\* new Error("Operation timed out")
TimedOut == ErrorOf("Operation timed out")

\* the ReferenceError raised on reading an identifier that is not in scope
ReferenceError(id) ==
    [kind |-> "error", type |-> "ReferenceError", code |-> "none",
     message |-> id \o " is not defined"]

(***************************************************************************)
(* Promises.                                                               *)
(***************************************************************************)
NoPromise    == [state |-> "none", value |-> NoValue]
Pending      == [state |-> "pending", value |-> NoValue]
Fulfilled(v) == [state |-> "fulfilled", value |-> v]
Rejected(e)  == [state |-> "rejected", value |-> e]

Settled(p) == p.state \in {"fulfilled", "rejected"}

\* a race that would follow the input that settled last
RaceSettleLast(r, p) == IF Settled(p) THEN p ELSE r

\* Promise.race: the race promise takes the state of the first input that
\* settles and keeps it
RaceSettle(r, p) == IF r.state = "pending" /\ Settled(p) THEN p ELSE r

\* Promise.race([a, b]): the race attaches reactions to each of its inputs
RaceInputs == {"call", "timer"}

\* ---- the project directory and the calls of deleteFile ----

NumFileCalls == 2

FileCalls == 1..NumFileCalls

\* file_path values, relative to the project root
Paths == {"a.txt", "b.txt"}

\* values a request can carry under `confirm`; the gateway hands the
\* arguments to the tool function as they came
ConfirmValues ==
    { [kind |-> "undefined", val |-> "undefined"],
      [kind |-> "boolean", val |-> "false"],
      [kind |-> "boolean", val |-> "true"],
      [kind |-> "string", val |-> ""],
      [kind |-> "string", val |-> "false"],
      [kind |-> "number", val |-> "1"] }

ConfirmOmitted == [kind |-> "undefined", val |-> "undefined"]

ConfirmFalse == [kind |-> "boolean", val |-> "false"]

ConfirmTrue == [kind |-> "boolean", val |-> "true"]

\* the truthiness that `!args.confirm` tests
ToBoolean(v) ==
    CASE v.kind = "undefined" -> FALSE
      [] v.kind = "boolean"   -> v.val = "true"
      [] v.kind = "string"    -> v.val # ""
      [] v.kind = "number"    -> v.val \notin {"0", "NaN"}

NoFileArgs == [file_path |-> "none", confirm |-> ConfirmOmitted]

\* the object whose JSON text is the one content item of deleteFile's return
FileEnvelope(key, said, p) ==
    [kind |-> "envelope",
     content |-> << [type |-> "text",
                     text |-> [key |-> key, said |-> said, file_path |-> p]] >>]

\* ---- the file tools and the disk ----

\* process.cwd() (or join(__dirname, "../../")), as path segments
ProjectRoot == << "project" >>

\* file_path values a request can carry, as path segments
FilePathArgs ==
    { << "a.txt" >>, << "src", "a.txt" >>, << ".", "a.txt" >>,
      << "..", "secret.txt" >>, << "src", "..", "..", "secret.txt" >> }

RECURSIVE NormalizeFrom(_, _)
\* path.normalize: "." is dropped, ".." takes the segment before it away
NormalizeFrom(done, rest) ==
    IF rest = << >> THEN done
    ELSE LET h == Head(rest)
         IN  IF h = "." THEN NormalizeFrom(done, Tail(rest))
             ELSE IF h = ".."
                  THEN NormalizeFrom(IF done = << >> THEN << >>
                                     ELSE SubSeq(done, 1, Len(done) - 1),
                                     Tail(rest))
                  ELSE NormalizeFrom(Append(done, h), Tail(rest))

\* path.join(a, b): the segments of both, normalized
PathJoin(a, b) == NormalizeFrom(<< >>, a \o b)

\* validateProjectPath(filePath) = path.join(process.cwd(), filePath)
ValidateProjectPath(filePath) == PathJoin(ProjectRoot, filePath)

\* the files the tools can reach on the disk
DiskPaths == { ValidateProjectPath(fp) : fp \in FilePathArgs }

Absent == "absent"

Contents == {"old", "new"}

\* values a request can carry under `backup`
BackupValues == {"omitted", "true", "false"}

FileTools == {"read_file", "write_file", "delete_file", "analyse_file"}

NoOp ==
    [tool |-> "none", file_path |-> << >>, backup |-> "omitted", path |-> << >>,
     prev |-> Absent, wrote |-> {}, failure |-> "none", outcome |-> "none",
     key |-> "none", message |-> "none"]

\* one call of a file tool: its arguments, the path it worked on, what was
\* there before, the files it wrote, the failure of the fs call (if any),
\* and how it ended
FileOp(tool, fp, b, safePath, prev, wrote, failure, outcome, key, message) ==
    [tool |-> tool, file_path |-> fp, backup |-> b, path |-> safePath,
     prev |-> prev, wrote |-> wrote, failure |-> failure, outcome |-> outcome,
     key |-> key, message |-> message]

\* ---- the user and task services and the database ----

NumDbCalls == 2

DbCalls == 1..NumDbCalls

Tables == {"user", "task"}

\* record ids a request can carry (0 is below the minimum the descriptors
\* state, which nothing enforces)
Ids == {0, 1, 2}

\* the record with id 1 exists at the start, in its first version
FirstVersion == "v0"

UpdatedVersion == "v1"

\* the e-mail address of the user with id 1
EmailOfUser == "a@x.io"

\* values a get_user request can carry under `email`
EmailValues == {"undefined", "", "a@x.io", "b@x.io"}

\* stands for an `id` that the request does not carry
IdOmitted == -1

\* values a get_user request can carry under `id`
IdValues == {IdOmitted} \cup Ids

\* throw new Error("User not found") / new Error("Task not found")
NotFound(table) == IF table = "user" THEN "User not found" ELSE "Task not found"

\* what prisma's update and delete reject with when the record is missing
RecordMissing == "P2025"

\* a service that would go on without its check
IsNullNever(found) == FALSE

\* if (!existingUser): findById gave null
IsNull(found) == found = Absent

NoDbArgs == [tool |-> "none", table |-> "none", id |-> IdOmitted,
             email |-> "undefined", existed |-> FALSE]

NoDbResult == [outcome |-> "none", message |-> "none", queried |-> FALSE]

\* ---- get_file_structure and the directory tree ----

\* the depth used when max_depth is omitted
DefaultMaxDepth == 3

\* values a request can carry under `max_depth`
MaxDepthArgs ==
    { [given |-> FALSE, value |-> 0] }
        \cup { [given |-> TRUE, value |-> v] : v \in {-1, 0, 1, 2, 3, 5} }

\* values a request can carry under `directory`
DirectoryArgs ==
    { [given |-> FALSE, value |-> << >>],
      [given |-> TRUE, value |-> << >>],
      [given |-> TRUE, value |-> << "src" >>],
      [given |-> TRUE, value |-> << "src", "mcp" >>] }

\* args.directory || ".": the empty string counts as omitted
DirectoryOrDefault(a) ==
    IF a.given /\ a.value # << >> THEN a.value ELSE << "." >>

\* args.max_depth || 3: the number 0 counts as omitted
MaxDepthOrDefault(a) ==
    IF a.given /\ a.value # 0 THEN a.value ELSE DefaultMaxDepth

\* what fs.readdir yields: the entries of a directory, in order
Entries(d) ==
    CASE d = << "project" >> ->
             << [name |-> ".git", dir |-> TRUE],
                [name |-> "node_modules", dir |-> TRUE],
                [name |-> "src", dir |-> TRUE],
                [name |-> "README.md", dir |-> FALSE] >>
      [] d = << "project", "src" >> ->
             << [name |-> "mcp", dir |-> TRUE],
                [name |-> "app", dir |-> TRUE],
                [name |-> "index.ts", dir |-> FALSE] >>
      [] d = << "project", "src", "mcp" >> ->
             << [name |-> "tools", dir |-> TRUE],
                [name |-> "server.ts", dir |-> FALSE] >>
      [] d = << "project", "src", "mcp", "tools" >> ->
             << [name |-> "user", dir |-> TRUE],
                [name |-> "tools.ts", dir |-> FALSE] >>
      [] d = << "project", "src", "mcp", "tools", "user" >> ->
             << [name |-> "getUser.ts", dir |-> FALSE] >>
      [] OTHER -> << >>

\* entry.name.startsWith(".") || ["node_modules", "dist", "build",
\* ".git"].includes(entry.name)
Skipped(name) ==
    name \in {".git", ".env", ".next"} \cup {"node_modules", "dist", "build"}

\* the directories among the entries of d that the loop descends into, each
\* one level deeper
Descents(d, depth) ==
    LET kept == SelectSeq(Entries(d), LAMBDA e : e.dir /\ ~Skipped(e.name))
    IN  [k \in 1..Len(kept) |-> [dir |-> Append(d, kept[k].name), depth |-> depth + 1]]

\* if (currentDepth >= maxDepth) return "..."
TooDeep(currentDepth, maxDepth) == currentDepth >= maxDepth

NoWalk == [directory |-> [given |-> FALSE, value |-> << >>],
           max_depth |-> [given |-> FALSE, value |-> 0]]

\* ---- shutdown ----

\* how many signals and uncaught exceptions the process is sent
MaxEvents == 4

Signals == {"SIGINT", "SIGTERM"}

\* error.code of an uncaught exception, as far as the listener tells apart
ExceptionCodes == {"EPIPE", "other"}

NotExited == [exited |-> FALSE, code |-> 0, on |-> 0]

\* process.exit(code), reached while handling event number k
Exited(code, k) == [exited |-> TRUE, code |-> code, on |-> k]

\* the second uncaughtException listener: process.exit(0) for EPIPE,
\* process.exit(1) otherwise
SecondListener(code, k) == Exited(IF code = "EPIPE" THEN 0 ELSE 1, k)

VARIABLES
    sevents,    \* the signals and uncaught exceptions received, in order
    sdisc,      \* sdisc[k]: the db.$disconnect() that event k started
    sexit,      \* whether, with which code and on which event the process exited
    targs,      \* the arguments of the current call of getFileStructure
    tstack,     \* the calls of buildStructure still to run: [dir, depth]
    tread,      \* the directories read with fs.readdir: [dir, depth]
    tdots,      \* the directories reported as "..."
    rows,       \* rows[table][id]: the version of the record, or Absent
    dpc,        \* dpc[c]: where call c of a user or task tool stands
    dargs,      \* dargs[c]: the tool and its arguments
    dresult,    \* dresult[c]: how call c ended
    repo,       \* the update and delete calls made on the repositories
    disk,       \* disk[p]: the content of the file at p, or Absent
    op,         \* the last call of a file tool
    files,      \* the files that exist in the project directory
    fpc,        \* fpc[c]: where call c of deleteFile stands
    fargs,      \* fargs[c]: the arguments of call c
    fresult,    \* fresult[c]: what call c returned
    removed,    \* removed[c]: the files call c has unlinked
    impl,       \* the variant of class Tools that is running
    server,     \* "new", "constructed", "listening" or "exited"
    tools,      \* this.tools: the entries in insertion order
    handlers,   \* the request handlers installed on the server
    listed,     \* the tools of the last list-tools response
    hfn,        \* hfn[d]: the tool function that was called
    users,      \* the dispatches whose userCreate inserted its user
    request,    \* request[d]: the call-tool request of dispatch d
    pc,         \* pc[d]: "idle", "awaiting", "returned" or "raised"
    call,       \* call[d]: the promise of toolFunction(..) / executeCall(..)
    invoked,    \* invoked[d]: how many times a tool function was called
    hargs,      \* hargs[d]: the arguments the tool function was called with
    timer,      \* timer[d]: the timer of setTimeout, with its delay
    race,       \* race[d]: the promise of Promise.race([...])
    watched,    \* watched[d]: the promises that have a reaction attached
    settled,    \* settled[d]: the race inputs in the order they settled
    caught,     \* caught[d]: the error that entered the catch block
    response,   \* response[d]: the value the call-tool handler returned
    raised,     \* raised[d]: the error the call-tool handler rejected with
    logs,       \* logs[d]: the log() calls of the call-tool handler
    path,       \* path[d]: the code points the dispatch has passed
    unhandled   \* promises that rejected with no reaction attached

fvars == << files, fpc, fargs, fresult, removed >>

dvars == << disk, op >>

\* no file tool has been called; all reachable files exist
DiskIdle ==
    /\ disk = [p \in DiskPaths |-> "old"]
    /\ op = NoOp

bvars == << rows, dpc, dargs, dresult, repo >>

\* no user or task tool has been called; one user and one task exist
DbIdle ==
    /\ rows = [t \in Tables |-> [i \in Ids |-> IF i = 1 THEN FirstVersion ELSE Absent]]
    /\ dpc = [c \in DbCalls |-> "idle"]
    /\ dargs = [c \in DbCalls |-> NoDbArgs]
    /\ dresult = [c \in DbCalls |-> NoDbResult]
    /\ repo = {}

tvars == << targs, tstack, tread, tdots >>

\* getFileStructure has not been called
TreeIdle ==
    /\ targs = NoWalk
    /\ tstack = << >>
    /\ tread = {}
    /\ tdots = {}

svars == << sevents, sdisc, sexit >>

\* the process runs and was sent nothing
ShutdownIdle ==
    /\ sevents = << >>
    /\ sdisc = << >>
    /\ sexit = NotExited

\* the variables of the other parts
xvars == << dvars, bvars, tvars, svars >>

\* no call of deleteFile has been made
FilesIdle ==
    /\ fpc = [c \in FileCalls |-> "idle"]
    /\ fargs = [c \in FileCalls |-> NoFileArgs]
    /\ fresult = [c \in FileCalls |-> NoValue]
    /\ removed = [c \in FileCalls |-> {}]

gvars ==
    << impl, server, tools, handlers, listed, hfn, users, request, pc, call,
       invoked, hargs, timer, race, watched, settled, caught, response, raised,
       logs, path, unhandled >>

vars == << fvars, gvars, xvars >>

(***************************************************************************)
(* The call-tool handler (callSchema).                                     *)
(***************************************************************************)
\* the arguments passed on as they came
OrEmptyOmitted(a) == a

\* args || {}
OrEmpty(a) == IF Truthy(a) THEN a ELSE EmptyObject

\* log(level, message, data): data is printed only when it is truthy
LogEntry(level, message, data) ==
    [level |-> level, message |-> message,
     data |-> IF data.kind = "object" THEN data ELSE NoValue]

\* a gateway that would rewrite an error-shaped value as a failure
ReturnResultInspected(result) ==
    IF result.content[1].text = ErrorShapedText
    THEN TextEnvelope("Tool failed") ELSE result

\* return result: the value the race resolved with is returned as it is
ReturnResult(result) == result

\* The identifiers that are in scope inside the catch block. name, args and
\* result are const declarations of the try block, so they are not; in
\* switch1 startTime is declared inside the try block as well. Neither the
\* module nor the Node.js global object defines name or startTime.
CatchScope(i) ==
    {"request", "error", "Date", "log"}
        \cup (IF i = "switch1" THEN {} ELSE {"startTime"})

\* the identifiers the catch block reads, in evaluation order
CatchReads == << "Date", "startTime", "log", "name", "error" >>

Unbound(i) == { k \in 1..Len(CatchReads) : CatchReads[k] \notin CatchScope(i) }

\* catch (error) { duration; log("error", `Tool ${name} failed ..`); return
\* {content: [{type: "text", text: error.message}]} }: reading an identifier
\* that is not in scope raises a ReferenceError out of the catch block
CatchBlock(i, n, error) ==
    IF Unbound(i) # {}
    THEN LET k == CHOOSE x \in Unbound(i) : \A y \in Unbound(i) : x <= y
         IN  [kind |-> "throw", value |-> ReferenceError(CatchReads[k]),
              logs |-> << >>]
    ELSE [kind |-> "return", value |-> TextEnvelope(error.message),
          logs |-> << LogEntry("error", "Tool " \o n \o " failed",
                               [kind |-> "object", keys |-> {"error"}]) >>]

\* no request has been received
NoDispatch ==
    /\ listed = NoValue
    /\ hfn = [d \in Dispatches |-> "none"]
    /\ users = {}
    /\ request = [d \in Dispatches |-> NoRequest]
    /\ pc = [d \in Dispatches |-> "idle"]
    /\ call = [d \in Dispatches |-> NoPromise]
    /\ invoked = [d \in Dispatches |-> 0]
    /\ hargs = [d \in Dispatches |-> NoValue]
    /\ timer = [d \in Dispatches |-> NoTimer]
    /\ race = [d \in Dispatches |-> NoPromise]
    /\ watched = [d \in Dispatches |-> {}]
    /\ settled = [d \in Dispatches |-> << >>]
    /\ caught = [d \in Dispatches |-> NoValue]
    /\ response = [d \in Dispatches |-> NoValue]
    /\ raised = [d \in Dispatches |-> NoValue]
    /\ logs = [d \in Dispatches |-> << >>]
    /\ path = [d \in Dispatches |-> << >>]
    /\ unhandled = {}

Init ==
    /\ files = Paths
    /\ FilesIdle
    /\ DiskIdle
    /\ DbIdle
    /\ TreeIdle
    /\ ShutdownIdle
    /\ impl \in Impls
    /\ server = "new"
    /\ tools = << >>
    /\ handlers = {}
    /\ NoDispatch

\* a gateway that would remember the requests it has answered and answer
\* a repeated one differently
FinishRemembering(d, out) ==
    LET seen == \E e \in Dispatches :
                    e # d /\ pc[e] = "returned" /\ request[e] = request[d]
    IN  /\ pc' = [pc EXCEPT ![d] = IF out.kind = "return" THEN "returned" ELSE "raised"]
        /\ response' = [response EXCEPT ![d] =
                          IF out.kind # "return" THEN @
                          ELSE IF seen THEN TextEnvelope("duplicate request")
                          ELSE out.value]
        /\ raised' = [raised EXCEPT ![d] = IF out.kind = "throw" THEN out.value ELSE @]

\* the call-tool handler ends: it returns out.value or rejects with it
Finish(d, out) ==
    /\ pc' = [pc EXCEPT ![d] = IF out.kind = "return" THEN "returned" ELSE "raised"]
    /\ response' = [response EXCEPT ![d] = IF out.kind = "return" THEN out.value ELSE @]
    /\ raised' = [raised EXCEPT ![d] = IF out.kind = "throw" THEN out.value ELSE @]

\* The continuation of `await Promise.race(..)` once the race has settled
\* as r: with a value, log the completion and return the value; with an
\* error, run the catch block. before is the path up to the await.
Continuation(d, n, r, said, before) ==
    IF r.state = "fulfilled"
    THEN /\ Finish(d, [kind |-> "return", value |-> ReturnResult(r.value)])
         /\ logs' = [logs EXCEPT ![d] =
                       Append(said, LogEntry("info", "Tool " \o n \o " completed",
                                             NoValue))]
         /\ path' = [path EXCEPT ![d] = before \o << "completed", "return" >>]
         /\ UNCHANGED caught
    ELSE LET out == CatchBlock(impl, n, r.value)
         IN  /\ Finish(d, out)
             /\ logs' = [logs EXCEPT ![d] = said \o out.logs]
             /\ path' = [path EXCEPT ![d] = before \o << "catch", out.kind >>]
             /\ caught' = [caught EXCEPT ![d] = r.value]

\* new MCPServer(): new Tools(this.server) runs addTools, listSchema and
\* callSchema one after the other, synchronously
Construct ==
    /\ server = "new"
    /\ server' = "constructed"
    /\ tools' = AddTools(impl)
    /\ handlers' = RequestHandlers
    /\ UNCHANGED << fvars, xvars, impl, listed, hfn, users, request, pc, call, invoked, hargs, timer,
                    race, watched, settled, caught, response, raised, logs, path,
                    unhandled >>

\* run(): db.$connect() and server.connect(transport) succeed
RunListening ==
    /\ server = "constructed"
    /\ server' = "listening"
    /\ UNCHANGED << fvars, xvars, impl, tools, handlers, listed, hfn, users, request, pc, call,
                    invoked, hargs, timer, race, watched, settled, caught,
                    response, raised, logs, path, unhandled >>

\* run(): connecting fails and the catch block calls process.exit(1)
RunFailed ==
    /\ server = "constructed"
    /\ server' = "exited"
    /\ UNCHANGED << fvars, xvars, impl, tools, handlers, listed, hfn, users, request, pc, call,
                    invoked, hargs, timer, race, watched, settled, caught,
                    response, raised, logs, path, unhandled >>

Run == RunListening \/ RunFailed

\* the list-tools handler
ListTools ==
    /\ server = "listening"
    /\ "tools/list" \in handlers
    /\ listed' = [kind |-> "list", tools |-> ListSchema(impl, tools)]
    /\ UNCHANGED << fvars, xvars, impl, server, tools, handlers, hfn, users, request, pc, call,
                    invoked, hargs, timer, race, watched, settled, caught,
                    response, raised, logs, path, unhandled >>

\* requests reach the call-tool handler once the server is connected; they
\* are numbered in the order they arrive
Arrives(d) ==
    /\ server = "listening"
    /\ "tools/call" \in handlers
    /\ pc[d] = "idle"
    /\ d > 1 => pc[d - 1] # "idle"

\* registry variants, no entry under the name: with toolEntry undefined
\* the McpError is thrown, with a toolEntry inherited from Object.prototype
\* the destructuring throws; either way inside the try block before
\* Promise.race is reached, and the catch block runs
CallToolUnknown(d, n, a) ==
    /\ Arrives(d)
    /\ UsesRegistry(impl)
    /\ Resolve(impl, tools, n).kind # "entry"
    /\ LET undef == Resolve(impl, tools, n).kind = "undefined"
           error == IF undef THEN UnknownTool(n) ELSE NotIterable
           out == CatchBlock(impl, n, error)
       IN  /\ Finish(d, out)
           /\ logs' = [logs EXCEPT ![d] =
                         << LogEntry("info", "Executing tool: " \o n, a) >> \o out.logs]
           /\ path' = [path EXCEPT ![d] =
                         << "received", "lookup",
                            IF undef THEN "unknown" ELSE "destructure",
                            "catch", out.kind >>]
           /\ caught' = [caught EXCEPT ![d] = error]
    /\ request' = [request EXCEPT ![d] = Request(n, a)]
    /\ tools' = AfterLookup(tools, n)
    /\ UNCHANGED << fvars, xvars, impl, server, handlers, listed, hfn, users, call, invoked, hargs,
                    timer, race, watched, settled, unhandled >>

\* Promise.race([toolFunction(args || {}), new Promise(.. setTimeout ..)]) in
\* the registry variants, with the tool found; and
\* Promise.race([this.executeCall(name, args || {}), new Promise(..)]) in the
\* switch variants, where executeCall rejects at once for an unknown name:
\* the race then settles and the handler continues within the same turn
CallToolRace(d, n, a) ==
    /\ Arrives(d)
    /\ UsesRegistry(impl) => Resolve(impl, tools, n).kind = "entry"
    /\ LET found == Resolve(impl, tools, n).kind = "entry"
           p == IF found THEN Pending ELSE Rejected(UnknownTool(n))
           r == RaceSettle(Pending, p)
           said == << LogEntry("info", "Executing tool: " \o n, a) >>
           before == << "received", "lookup", IF found THEN "invoke" ELSE "unknown",
                        "timer", "await" >>
       IN  /\ call' = [call EXCEPT ![d] = p]
           /\ invoked' = [invoked EXCEPT ![d] = IF found THEN @ + 1 ELSE @]
           /\ hargs' = [hargs EXCEPT ![d] = IF found THEN OrEmpty(a) ELSE @]
           /\ hfn' = [hfn EXCEPT ![d] = Resolve(impl, tools, n).fn]
           /\ race' = [race EXCEPT ![d] = r]
           /\ settled' = [settled EXCEPT ![d] = IF found THEN << >> ELSE << "call" >>]
           /\ unhandled' = IF ~found /\ "call" \notin RaceInputs
                           THEN unhandled \cup {<< d, "call" >>} ELSE unhandled
           /\ IF Settled(r)
              THEN Continuation(d, n, r, said, before)
              ELSE /\ pc' = [pc EXCEPT ![d] = "awaiting"]
                   /\ logs' = [logs EXCEPT ![d] = said]
                   /\ path' = [path EXCEPT ![d] = before]
                   /\ UNCHANGED << caught, response, raised >>
    /\ request' = [request EXCEPT ![d] = Request(n, a)]
    /\ timer' = [timer EXCEPT ![d] = Armed(TimeoutMs(impl))]
    /\ watched' = [watched EXCEPT ![d] = RaceInputs]
    /\ tools' = IF UsesRegistry(impl) THEN AfterLookup(tools, n) ELSE tools
    /\ UNCHANGED << fvars, xvars, impl, server, handlers, listed, users >>

CallTool(d, n, a) == CallToolUnknown(d, n, a) \/ CallToolRace(d, n, a)

\* a gateway that would keep one race for all the dispatches in flight
SettleShared(d, who, p) ==
    LET r == RaceSettle(race[d], p)
    IN  /\ race' = [e \in Dispatches |-> RaceSettle(race[e], p)]
        /\ settled' = [settled EXCEPT ![d] = Append(@, who)]
        /\ unhandled' = IF p.state = "rejected" /\ who \notin watched[d]
                        THEN unhandled \cup {<< d, who >>} ELSE unhandled
        /\ IF pc[d] = "awaiting" /\ Settled(r)
           THEN Continuation(d, request[d].name, r, logs[d], path[d])
           ELSE UNCHANGED << pc, response, raised, logs, path, caught >>

\* Race input `who` of dispatch d settles as p. The reactions run before
\* the turn ends: the race takes p if it was pending, and the call-tool
\* handler, if it was waiting on the race, continues.
Settle(d, who, p) ==
    LET r == RaceSettle(race[d], p)
    IN  /\ race' = [race EXCEPT ![d] = r]
        /\ settled' = [settled EXCEPT ![d] = Append(@, who)]
        /\ unhandled' = IF p.state = "rejected" /\ who \notin watched[d]
                        THEN unhandled \cup {<< d, who >>} ELSE unhandled
        /\ IF pc[d] = "awaiting" /\ Settled(r)
           THEN Continuation(d, request[d].name, r, logs[d], path[d])
           ELSE UNCHANGED << pc, response, raised, logs, path, caught >>

\* userCreate returns its envelope after `await userService.createUser(..)`
\* has inserted the user, and throws when the insert failed; the other tool
\* functions insert no user
Inserts(fn, v) == fn = "userCreate" /\ v = TextEnvelope(OkText)

\* the tool function resolves with v
HandlerReturn(d, v) ==
    /\ call[d].state = "pending"
    /\ call' = [call EXCEPT ![d] = Fulfilled(v)]
    /\ users' = IF Inserts(hfn[d], v) THEN users \cup {d} ELSE users
    /\ Settle(d, "call", Fulfilled(v))
    /\ UNCHANGED << fvars, xvars, impl, server, tools, handlers, listed, hfn, request, invoked,
                    hargs, timer, watched >>

\* the tool function rejects with new Error(m)
HandlerThrow(d, m) ==
    /\ call[d].state = "pending"
    /\ call' = [call EXCEPT ![d] = Rejected(ErrorOf(m))]
    /\ Settle(d, "call", Rejected(ErrorOf(m)))
    /\ UNCHANGED << fvars, xvars, impl, server, tools, handlers, listed, hfn, users, request, invoked,
                    hargs, timer, watched >>

\* a timer callback that would also cancel the tool function's work
TimerCallbackCancelling(p) ==
    IF p.state = "pending" THEN Rejected(ErrorOf("cancelled")) ELSE p

\* the timer callback is () => reject(new Error("Operation timed out")): it
\* rejects the timer's own promise and leaves the tool function's promise p
\* as it is
TimerCallback(p) == p

\* setTimeout(() => reject(new Error("Operation timed out")), ..) fires
TimerFire(d) ==
    /\ timer[d].state = "armed"
    /\ timer' = [timer EXCEPT ![d] = Fired(@)]
    /\ call' = [call EXCEPT ![d] = TimerCallback(@)]
    /\ Settle(d, "timer", Rejected(TimedOut))
    /\ UNCHANGED << fvars, xvars, impl, server, tools, handlers, listed, hfn, users, request,
                    invoked, hargs, watched >>

Next ==
    \/ Construct
    \/ Run
    \/ ListTools
    \/ \E d \in Dispatches, n \in RequestNames, a \in ArgValues : CallTool(d, n, a)
    \/ \E d \in Dispatches, v \in HandlerValues : HandlerReturn(d, v)
    \/ \E d \in Dispatches, m \in HandlerMessages : HandlerThrow(d, m)
    \/ \E d \in Dispatches : TimerFire(d)

Spec == Init /\ [][Next]_vars

(***************************************************************************)
(* The tool function deleteFile, call by call. Every await is a step, so   *)
(* that calls interleave between fs.access, fs.stat and fs.unlink.         *)
(***************************************************************************)
\* deleteFile returns v
FileReturn(c, v) ==
    /\ fpc' = [fpc EXCEPT ![c] = "done"]
    /\ fresult' = [fresult EXCEPT ![c] = v]

\* the catch block: the envelope "Failed to delete <path>: <message>"
FileCatch(c, message) ==
    FileReturn(c, FileEnvelope("error", "Failed to delete: " \o message,
                               fargs[c].file_path))

\* deleteFile(args) up to its first await: without a truthy confirm it
\* returns the envelope "Deletion requires confirmation"; otherwise it
\* resolves the path and calls fs.access
DeleteFile(c, p, cf) ==
    /\ server = "listening"
    /\ fpc[c] = "idle"
    /\ c > 1 => fpc[c - 1] # "idle"
    /\ fargs' = [fargs EXCEPT ![c] = [file_path |-> p, confirm |-> cf]]
    /\ IF ~ToBoolean(cf)
       THEN FileReturn(c, FileEnvelope("error", "Deletion requires confirmation", p))
       ELSE /\ fpc' = [fpc EXCEPT ![c] = "access"]
            /\ UNCHANGED fresult
    /\ UNCHANGED << files, removed, gvars, xvars >>

\* await fs.access(safePath): a missing file gives the envelope "File not
\* found"
FsAccess(c) ==
    /\ fpc[c] = "access"
    /\ IF fargs[c].file_path \in files
       THEN /\ fpc' = [fpc EXCEPT ![c] = "stat"]
            /\ UNCHANGED fresult
       ELSE FileReturn(c, FileEnvelope("error", "File not found",
                                       fargs[c].file_path))
    /\ UNCHANGED << files, fargs, removed, gvars, xvars >>

\* await fs.stat(safePath): rejects with ENOENT when the file is gone
FsStat(c) ==
    /\ fpc[c] = "stat"
    /\ IF fargs[c].file_path \in files
       THEN /\ fpc' = [fpc EXCEPT ![c] = "unlink"]
            /\ UNCHANGED fresult
       ELSE FileCatch(c, "ENOENT")
    /\ UNCHANGED << files, fargs, removed, gvars, xvars >>

\* await fs.unlink(safePath) and the envelope "File deleted"; rejects with
\* ENOENT when the file is gone
FsUnlink(c) ==
    /\ fpc[c] = "unlink"
    /\ IF fargs[c].file_path \in files
       THEN /\ files' = files \ {fargs[c].file_path}
            /\ removed' = [removed EXCEPT ![c] = @ \cup {fargs[c].file_path}]
            /\ FileReturn(c, FileEnvelope("success", "File deleted",
                                          fargs[c].file_path))
       ELSE /\ FileCatch(c, "ENOENT")
            /\ UNCHANGED << files, removed >>
    /\ UNCHANGED << fargs, gvars, xvars >>

\* the registry with deleteFile, and any files in the project directory
FileInit ==
    /\ files \in SUBSET Paths
    /\ FilesIdle
    /\ DiskIdle
    /\ DbIdle
    /\ TreeIdle
    /\ ShutdownIdle
    /\ impl = "registry18"
    /\ server = "new"
    /\ tools = << >>
    /\ handlers = {}
    /\ NoDispatch

FileNext ==
    \/ Construct
    \/ RunListening
    \/ \E c \in FileCalls, p \in Paths, cf \in ConfirmValues : DeleteFile(c, p, cf)
    \/ \E c \in FileCalls : FsAccess(c)
    \/ \E c \in FileCalls : FsStat(c)
    \/ \E c \in FileCalls : FsUnlink(c)

FileSpec == FileInit /\ [][FileNext]_vars

(***************************************************************************)
(* The file tools on the disk, one call at a time.                         *)
(***************************************************************************)
\* the server of part_005 after new MCPServer().run(), no request received
GatewayListening ==
    /\ impl = "registry18"
    /\ server = "listening"
    /\ tools = AddTools(impl)
    /\ handlers = RequestHandlers
    /\ NoDispatch

\* failures of fs.writeFile other than a missing file
WriteFailures == {"none", "EACCES"}

\* readFile: fs.readFile(safePath) rejects with ENOENT for a missing file,
\* and the catch block returns the envelope "Failed to read .."
ReadFile(fp) ==
    LET safePath == ValidateProjectPath(fp)
    IN  /\ op' = IF disk[safePath] = Absent
                 THEN FileOp("read_file", fp, "omitted", safePath, Absent, {},
                             "ENOENT", "returned", "error", "Failed to read: ENOENT")
                 ELSE FileOp("read_file", fp, "omitted", safePath, disk[safePath], {},
                             "none", "returned", "content", disk[safePath])
        /\ UNCHANGED << disk, gvars, fvars, bvars, tvars, svars >>

\* analyseFile: reads as readFile does; the catch block returns the
\* envelope "Failed to analyse .."
AnalyseFile(fp) ==
    LET safePath == ValidateProjectPath(fp)
    IN  /\ op' = IF disk[safePath] = Absent
                 THEN FileOp("analyse_file", fp, "omitted", safePath, Absent, {},
                             "ENOENT", "returned", "error", "Failed to analyse: ENOENT")
                 ELSE FileOp("analyse_file", fp, "omitted", safePath, disk[safePath],
                             {}, "none", "returned", "analysis", disk[safePath])
        /\ UNCHANGED << disk, gvars, fvars, bvars, tvars, svars >>

\* writeFile: fs.mkdir and fs.writeFile(safePath, args.content); args.backup
\* is not read. A failure is caught and returned as "Failed to write .."
WriteFile(fp, content, b, failure) ==
    LET safePath == ValidateProjectPath(fp)
    IN  /\ disk' = IF failure = "none" THEN [disk EXCEPT ![safePath] = content]
                   ELSE disk
        /\ op' = IF failure = "none"
                 THEN FileOp("write_file", fp, b, safePath, disk[safePath],
                             {safePath}, "none", "returned", "success", "File written")
                 ELSE FileOp("write_file", fp, b, safePath, disk[safePath], {},
                             failure, "returned", "error",
                             "Failed to write: " \o failure)
        /\ UNCHANGED << gvars, fvars, bvars, tvars, svars >>

\* deleteFile past its confirmation check: fs.access, fs.stat, fs.unlink
\* on safePath; a missing file gives the envelope "File not found"
DeleteConfirmed(fp) ==
    LET safePath == ValidateProjectPath(fp)
    IN  /\ disk' = [disk EXCEPT ![safePath] = Absent]
        /\ op' = IF disk[safePath] = Absent
                 THEN FileOp("delete_file", fp, "omitted", safePath, Absent, {},
                             "ENOENT", "returned", "error", "File not found")
                 ELSE FileOp("delete_file", fp, "omitted", safePath, disk[safePath],
                             {}, "none", "returned", "success", "File deleted")
        /\ UNCHANGED << gvars, fvars, bvars, tvars, svars >>

DiskInit ==
    /\ GatewayListening
    /\ files = Paths
    /\ FilesIdle
    /\ DiskIdle
    /\ DbIdle
    /\ TreeIdle
    /\ ShutdownIdle

DiskNext ==
    \/ \E fp \in FilePathArgs : ReadFile(fp)
    \/ \E fp \in FilePathArgs : AnalyseFile(fp)
    \/ \E fp \in FilePathArgs, c \in Contents, b \in BackupValues,
          f \in WriteFailures : WriteFile(fp, c, b, f)
    \/ \E fp \in FilePathArgs : DeleteConfirmed(fp)

DiskSpec == DiskInit /\ [][DiskNext]_vars

(***************************************************************************)
(* The user and task tools. Every await of a service method is a step, so  *)
(* that calls interleave between findById and the update or delete.        *)
(***************************************************************************)
\* call c ends
DbEnd(c, outcome, message, queried) ==
    /\ dpc' = [dpc EXCEPT ![c] = "done"]
    /\ dresult' = [dresult EXCEPT ![c] =
                     [outcome |-> outcome, message |-> message, queried |-> queried]]

\* updateUser / deleteUser / updateTask / deleteTask (the tool calls the
\* service method, which calls repository.findById and awaits it)
ServiceCall(c, tool, table, id) ==
    /\ dpc[c] = "idle"
    /\ c > 1 => dpc[c - 1] # "idle"
    /\ dargs' = [dargs EXCEPT ![c] =
                   [tool |-> tool, table |-> table, id |-> id,
                    email |-> "undefined", existed |-> rows[table][id] # Absent]]
    /\ dpc' = [dpc EXCEPT ![c] = "find"]
    /\ UNCHANGED << rows, dresult, repo, gvars, fvars, dvars, tvars, svars >>

\* findById settles: without a record the service throws "not found" and
\* the tool's catch block rethrows it; otherwise the service goes on to
\* the repository's update or delete
FindById(c) ==
    /\ dpc[c] = "find"
    /\ IF IsNull(rows[dargs[c].table][dargs[c].id])
       THEN DbEnd(c, "raised", NotFound(dargs[c].table), TRUE)
       ELSE /\ dpc' = [dpc EXCEPT ![c] = "found"]
            /\ UNCHANGED dresult
    /\ UNCHANGED << rows, dargs, repo, gvars, fvars, dvars, tvars, svars >>

\* repository.update(id, input) / repository.delete(id) settles: prisma
\* rejects when the record is missing, and the tool rethrows
RepositoryCall(c) ==
    /\ dpc[c] = "found"
    /\ LET t == dargs[c].table
           i == dargs[c].id
           there == rows[t][i] # Absent
           what == IF dargs[c].tool \in {"update_user", "update_task"}
                   THEN "update" ELSE "delete"
       IN  /\ repo' = repo \cup {[call |-> c, what |-> what, table |-> t, id |-> i,
                                   existed |-> there]}
           /\ IF there
              THEN /\ rows' = [rows EXCEPT ![t][i] =
                                 IF what = "update" THEN UpdatedVersion ELSE Absent]
                   /\ DbEnd(c, "returned", "success", TRUE)
              ELSE /\ DbEnd(c, "raised", RecordMissing, TRUE)
                   /\ UNCHANGED rows
    /\ UNCHANGED << dargs, gvars, fvars, dvars, tvars, svars >>

\* getUser: the two checks, then getUserById or getUserByEmail, then the
\* envelope: success false and user null when no user matched
GetUser(c, id, email) ==
    /\ dpc[c] = "idle"
    /\ c > 1 => dpc[c - 1] # "idle"
    /\ dargs' = [dargs EXCEPT ![c] =
                   [tool |-> "get_user", table |-> "user", id |-> id,
                    email |-> email, existed |-> FALSE]]
    /\ LET hasId == id \notin {IdOmitted, 0}
           hasEmail == email \notin {"undefined", ""}
           user == IF hasId THEN rows["user"][id]
                   ELSE IF email = EmailOfUser THEN rows["user"][1]
                   ELSE Absent
       IN  IF ~hasId /\ ~hasEmail
           THEN DbEnd(c, "raised", "Either id or email must be provided", FALSE)
           ELSE IF hasId /\ hasEmail
           THEN DbEnd(c, "raised", "Provide either id or email, not both", FALSE)
           ELSE IF user = Absent
           THEN DbEnd(c, "returned", "success: false, user: null", TRUE)
           ELSE DbEnd(c, "returned", "success: true", TRUE)
    /\ UNCHANGED << rows, repo, gvars, fvars, dvars, tvars, svars >>

ServiceTools == {"update_user", "delete_user", "update_task", "delete_task"}

\* the table a tool works on
TableOf(tool) == IF tool \in {"update_user", "delete_user"} THEN "user" ELSE "task"

DbInit ==
    /\ GatewayListening
    /\ files = Paths
    /\ FilesIdle
    /\ DiskIdle
    /\ DbIdle
    /\ TreeIdle
    /\ ShutdownIdle

DbNext ==
    \/ \E c \in DbCalls, tool \in ServiceTools, id \in Ids :
          ServiceCall(c, tool, TableOf(tool), id)
    \/ \E c \in DbCalls : FindById(c)
    \/ \E c \in DbCalls : RepositoryCall(c)
    \/ \E c \in DbCalls, id \in IdValues, email \in EmailValues : GetUser(c, id, email)

DbSpec == DbInit /\ [][DbNext]_vars

(***************************************************************************)
(* getFileStructure: the recursive buildStructure, one call at a step.     *)
(***************************************************************************)
\* getFileStructure(args) up to buildStructure(safePath)
GetFileStructure(directory, max_depth) ==
    /\ tstack = << >>
    /\ targs' = [directory |-> directory, max_depth |-> max_depth]
    /\ tstack' = << [dir |-> ValidateProjectPath(DirectoryOrDefault(directory)),
                     depth |-> 0] >>
    /\ tread' = {}
    /\ tdots' = {}
    /\ UNCHANGED << gvars, fvars, dvars, bvars, svars >>

\* buildStructure(dirPath, currentDepth): "..." when too deep; otherwise
\* fs.readdir and, for each directory that is not skipped, a call of
\* buildStructure one level deeper, awaited before the next entry
BuildStructure ==
    /\ tstack # << >>
    /\ LET top == Head(tstack)
       IN  IF TooDeep(top.depth, MaxDepthOrDefault(targs.max_depth))
           THEN /\ tdots' = tdots \cup {top}
                /\ tstack' = Tail(tstack)
                /\ UNCHANGED tread
           ELSE /\ tread' = tread \cup {top}
                /\ tstack' = Descents(top.dir, top.depth) \o Tail(tstack)
                /\ UNCHANGED tdots
    /\ UNCHANGED << targs, gvars, fvars, dvars, bvars, svars >>

TreeInit ==
    /\ GatewayListening
    /\ files = Paths
    /\ FilesIdle
    /\ DiskIdle
    /\ DbIdle
    /\ TreeIdle
    /\ ShutdownIdle

TreeNext ==
    \/ \E d \in DirectoryArgs, m \in MaxDepthArgs : GetFileStructure(d, m)
    \/ BuildStructure

TreeSpec == TreeInit /\ [][TreeNext]_vars

(***************************************************************************)
(* Shutdown: the listeners of SIGINT, SIGTERM and uncaughtException, and   *)
(* cleanup.                                                                *)
(***************************************************************************)
\* SIGINT or SIGTERM: cleanup runs up to `await db.$disconnect()`
Signal(sig) ==
    /\ ~sexit.exited
    /\ Len(sevents) < MaxEvents
    /\ sevents' = Append(sevents, sig)
    /\ sdisc' = Append(sdisc, "pending")
    /\ UNCHANGED << sexit, gvars, fvars, dvars, bvars, tvars >>

\* an uncaught exception: the first listener calls cleanup(), which runs up
\* to `await db.$disconnect()`; the second listener then runs in the same
\* turn
UncaughtException(code) ==
    /\ ~sexit.exited
    /\ Len(sevents) < MaxEvents
    /\ sevents' = Append(sevents, code)
    /\ sdisc' = Append(sdisc, "pending")
    /\ sexit' = SecondListener(code, Len(sevents) + 1)
    /\ UNCHANGED << gvars, fvars, dvars, bvars, tvars >>

\* db.$disconnect() of event k settles and cleanup goes on: it logs, in
\* the catch block when the disconnect failed, and calls process.exit(0)
DisconnectSettles(k, how) ==
    /\ ~sexit.exited
    /\ k \in 1..Len(sdisc)
    /\ sdisc[k] = "pending"
    /\ sdisc' = [sdisc EXCEPT ![k] = how]
    /\ sexit' = Exited(0, k)
    /\ UNCHANGED << sevents, gvars, fvars, dvars, bvars, tvars >>

ShutdownInit ==
    /\ GatewayListening
    /\ files = Paths
    /\ FilesIdle
    /\ DiskIdle
    /\ DbIdle
    /\ TreeIdle
    /\ ShutdownIdle

ShutdownNext ==
    \/ \E sig \in Signals : Signal(sig)
    \/ \E code \in ExceptionCodes : UncaughtException(code)
    \/ \E k \in 1..MaxEvents, how \in {"resolved", "rejected"} :
          DisconnectSettles(k, how)

ShutdownSpec == ShutdownInit /\ [][ShutdownNext]_vars

(***************************************************************************)
(* Properties of the dispatch.                                             *)
(***************************************************************************)
Done(d) == pc[d] \in {"returned", "raised"}

Received(d) == pc[d] # "idle"

Registered(d) == request[d].name \in ToolNames(impl)

\* the race input that settled first
First(d) == IF settled[d] = << >> THEN "none" ELSE settled[d][1]

\* the tool function of d was called and rejected before the timer fired
HandlerRaisedFirst(d) ==
    invoked[d] = 1 /\ First(d) = "call" /\ call[d].state = "rejected"

\* the tool function of d was called and resolved before the timer fired
HandlerReturnedFirst(d) ==
    invoked[d] = 1 /\ First(d) = "call" /\ call[d].state = "fulfilled"

\* the timer of d fired while the tool function had not settled
TimerFiredFirst(d) == invoked[d] = 1 /\ First(d) = "timer"

\* C1: every dispatch, however its handler ends, completes by returning a
\* response envelope; it never completes by raising an error.
C1_NeverRaises ==
    \A d \in Dispatches :
        /\ pc[d] # "raised"
        /\ Done(d) => response[d].kind = "envelope"

\* C2: when a registered handler raises an error with message X before the
\* timer fires, dispatch returns the failure envelope with the one content
\* item {type: "text", text: X}.
C2_HandlerErrorEnvelope ==
    \A d \in Dispatches :
        HandlerRaisedFirst(d) /\ Done(d) =>
            /\ pc[d] = "returned"
            /\ response[d] = TextEnvelope(call[d].value.message)

\* C3: when the timer fires before the handler has settled, dispatch returns
\* the failure envelope with the text "Operation timed out"; that envelope is
\* returned only after the timer has fired and never when the handler
\* settled first.
C3_TimeoutEnvelope ==
    \A d \in Dispatches :
        /\ TimerFiredFirst(d) /\ Done(d) =>
              response[d] = TextEnvelope("Operation timed out")
        /\ response[d] = TextEnvelope("Operation timed out") =>
              timer[d].state = "fired" /\ First(d) = "timer"

\* C4: every dispatch returns to its caller by the time its timer has fired,
\* also when the handler never settles: once the timer has fired the
\* dispatch is in its final state, with its response emitted.
C4_EmittedByTimeout ==
    \A d \in Dispatches : timer[d].state = "fired" => pc[d] = "returned"

\* what the caller can observe of a finished dispatch
Outcome(d) ==
    IF pc[d] = "returned"
    THEN [how |-> "returned", type |-> "envelope", code |-> "none",
          text |-> response[d].content[1].text]
    ELSE [how |-> "raised", type |-> raised[d].type, code |-> raised[d].code,
          text |-> raised[d].message]

\* C5: a dispatch of an unregistered name ends in a routing-error outcome
\* that carries the method-not-found code and differs from the outcome of
\* every registered handler that ran and raised an error.
C5_RoutingErrorDistinct ==
    \A d \in Dispatches :
        Done(d) /\ ~Registered(d) =>
            /\ Outcome(d).code = "MethodNotFound"
            /\ \A e \in Dispatches :
                  Done(e) /\ HandlerRaisedFirst(e) => Outcome(e) # Outcome(d)

\* C6: a dispatch of an unregistered name does not enter the race: no tool
\* function is called and no timer is started for it.
C6_NoRaceForUnknown ==
    \A d \in Dispatches :
        Received(d) /\ ~Registered(d) =>
            /\ invoked[d] = 0
            /\ timer[d] = NoTimer
            /\ race[d] = NoPromise

\* the outcome of d is the one its first settlement calls for
DecidedByFirst(d) ==
    /\ Done(d)
    /\ HandlerReturnedFirst(d) =>
          /\ pc[d] = "returned"
          /\ response[d] = call[d].value
          /\ caught[d] = NoValue
    /\ HandlerRaisedFirst(d) =>
          caught[d] = call[d].value /\ response[d] \notin HandlerValues
    /\ TimerFiredFirst(d) => caught[d] = TimedOut /\ response[d] \notin HandlerValues

\* nothing a finished dispatch has handed to its caller changes afterwards
OutcomeKept(d) ==
    /\ Settled(race[d]) => race'[d] = race[d]
    /\ Done(d) =>
          /\ pc'[d] = pc[d]
          /\ response'[d] = response[d]
          /\ raised'[d] = raised[d]
          /\ caught'[d] = caught[d]

\* C7: in a dispatch of a registered operation the first of handler and
\* timer to settle decides the outcome; the later settlement of the other
\* changes nothing of the outcome and is no unhandled rejection.
C7_FirstSettlerDecides ==
    /\ [](\A d \in Dispatches :
             /\ unhandled = {}
             /\ (invoked[d] = 1 /\ settled[d] # << >>) => DecidedByFirst(d))
    /\ [][\A d \in Dispatches : OutcomeKept(d)]_vars

\* a handler result arrived after the timeout, and a timer fired after the
\* handler's value was returned
C7_Witness ==
    \E d, e \in Dispatches :
        /\ settled[d] = << "timer", "call" >>
        /\ call[d].state = "fulfilled"
        /\ caught[d] = TimedOut
        /\ settled[e] = << "call", "timer" >>
        /\ pc[e] = "returned"
        /\ response[e] = call[e].value

\* the stages of the transaction d has passed, the timer and the await left out
Stages(d) == SelectSeq(path[d], LAMBDA x : x \notin {"timer", "await"})

\* C8: a finished dispatch has followed received -> resolving-name ->
\* (not-found-failure | invoking -> (success | handler-failure |
\* timeout-failure)) -> emitted: the handler ran at most once and only after
\* a successful lookup, and one response was emitted.
C8_Transaction ==
    \A d \in Dispatches :
        Done(d) =>
            /\ invoked[d] <= 1
            /\ invoked[d] = 1 <=> Registered(d)
            /\ Stages(d) \in
                 { << "received", "lookup", "unknown", "catch", "return" >>,
                   << "received", "lookup", "invoke", "completed", "return" >>,
                   << "received", "lookup", "invoke", "catch", "return" >> }
            /\ pc[d] = "returned"
            /\ response[d].kind = "envelope"

\* C9: when a registered handler resolves with a value before the timer
\* fires, dispatch returns that value unchanged, error-shaped or not.
C9_ValuePassedThrough ==
    \A d \in Dispatches :
        HandlerReturnedFirst(d) =>
            /\ pc[d] = "returned"
            /\ response[d] = call[d].value

\* an error-shaped value was returned to the caller as it was
C9_Witness ==
    \E d \in Dispatches :
        /\ HandlerReturnedFirst(d)
        /\ call[d].value = TextEnvelope(ErrorShapedText)
        /\ response[d] = TextEnvelope(ErrorShapedText)

Omitted(d) == Received(d) /\ request[d].arguments = Undefined

Empty(d) == Received(d) /\ request[d].arguments = EmptyObject

\* C10: a request without arguments is dispatched as a call with the empty
\* mapping: a registered handler is called with {} and nothing is caught
\* before it is called; and a request without arguments and one with {} for
\* the same name, whose handlers and timers behave alike, end alike.
C10_OmittedAsEmpty ==
    /\ \A d \in Dispatches :
          Omitted(d) /\ Registered(d) =>
              /\ invoked[d] = 1
              /\ hargs[d] = EmptyObject
              /\ settled[d] = << >> => pc[d] = "awaiting" /\ caught[d] = NoValue
    /\ \A d, e \in Dispatches :
          Omitted(d) /\ Empty(e) /\ request[d].name = request[e].name =>
              /\ invoked[d] = invoked[e]
              /\ hargs[d] = hargs[e]
              /\ (call[d] = call[e] /\ settled[d] = settled[e]) =>
                    /\ pc[d] = pc[e]
                    /\ response[d] = response[e]
                    /\ raised[d] = raised[e]
                    /\ path[d] = path[e]

\* a request without arguments and one with {} both returned the same value
C10_Witness ==
    \E d, e \in Dispatches :
        /\ Omitted(d) /\ Empty(e)
        /\ request[d].name = request[e].name
        /\ Registered(d)
        /\ pc[d] = "returned" /\ pc[e] = "returned"
        /\ response[d] = response[e]

\* {content: [..]} with at least one item, every item {type: "text", text: string}
WellFormed(v) ==
    /\ v.kind = "envelope"
    /\ Len(v.content) >= 1
    /\ \A k \in 1..Len(v.content) :
          v.content[k].type = "text" /\ v.content[k].text \in STRING

\* C11: every dispatch, on the success path and on every failure path, hands
\* its caller a well-formed envelope: a content array with at least one item
\* of type "text" whose text is a string.
C11_WellFormedEnvelope ==
    \A d \in Dispatches : Done(d) => WellFormed(response[d])

\* the timing entries among the log() calls of dispatch d
TimingEntries(d) ==
    SelectSeq(logs[d], LAMBDA e :
        e.message \in { "Tool " \o request[d].name \o " completed",
                        "Tool " \o request[d].name \o " failed" })

\* C19: every finished dispatch has emitted one timing entry: "completed"
\* (info) when the handler's value was returned, "failed" (error) on the
\* unknown-name, handler-error and timeout paths; and the value returned on
\* the success path is the handler's, whatever was logged.
C19_TimingEntry ==
    \A d \in Dispatches :
        Done(d) =>
            /\ Len(TimingEntries(d)) = 1
            /\ IF HandlerReturnedFirst(d)
               THEN /\ TimingEntries(d)[1].level = "info"
                    /\ TimingEntries(d)[1].message =
                          "Tool " \o request[d].name \o " completed"
                    /\ response[d] = call[d].value
               ELSE /\ TimingEntries(d)[1].level = "error"
                    /\ TimingEntries(d)[1].message =
                          "Tool " \o request[d].name \o " failed"

\* the keys of this.tools in insertion order
RegisteredNames == [k \in 1..Len(tools) |-> tools[k].name]

\* C14: all registrations are complete before the first dispatch can be
\* received: once the server is connected to its transport, and whenever a
\* request has been received, both request handlers are installed and, in
\* the variants with a registry, every tool is registered; the constructor
\* does both in one synchronous step.
C14_RegisteredBeforeDispatch ==
    /\ server = "new" => tools = << >> /\ handlers = {}
    /\ server # "new" =>
          /\ handlers = RequestHandlers
          /\ impl = "registry6" => RegisteredNames = Registry6
          /\ impl = "registry18" => RegisteredNames = Registry18
    /\ (listed # NoValue \/ \E d \in Dispatches : Received(d)) =>
          server = "listening"

C14_Witness ==
    /\ impl = "registry18"
    /\ Received(1) /\ request[1].name = "delete_user" /\ invoked[1] = 1
    /\ Len(tools) = 18

\* C15: after startup the registry is never mutated: no list-tools or
\* call-tool request, whatever its outcome, changes the registered names,
\* their descriptors or their tool functions, or the installed handlers.
C15_RegistryNeverMutated ==
    [][server # "new" => tools' = tools /\ handlers' = handlers]_vars

C15_Witness ==
    /\ UsesRegistry(impl)
    /\ listed # NoValue
    /\ Done(1) /\ ~Registered(1)
    /\ Done(2) /\ Registered(2)
    /\ tools = AddTools(impl) /\ Len(tools) >= 6

\* C16: lookup by name finds a tool function exactly when that name was
\* registered: a request for a registered name calls that name's own
\* function, a request for any other string is answered not found (the
\* McpError "Unknown tool") with no function called; the registry is left
\* as it was.
C16_LookupExact ==
    \A d \in Dispatches :
        Received(d) /\ UsesRegistry(impl) =>
            /\ tools = AddTools(impl)
            /\ IF Registered(d)
               THEN invoked[d] = 1 /\ hfn[d] = FunctionOf(request[d].name)
               ELSE invoked[d] = 0 /\ caught[d] = UnknownTool(request[d].name)

\* C17: the list-tools operation returns the descriptors of all registered
\* tools, each exactly once, in registration order (in the variants without
\* a registry: the order of the cases of executeCall).
C17_ListInRegistrationOrder ==
    listed # NoValue =>
        LET l == listed.tools
        IN  /\ Len(l) = Cardinality(ToolNames(impl))
            /\ \A n \in ToolNames(impl) :
                  Cardinality({k \in 1..Len(l) : l[k] = n}) = 1
            /\ UsesRegistry(impl) =>
                  Len(l) = Len(tools) /\ \A k \in 1..Len(l) : l[k] = tools[k].meta
            /\ impl = "switch6" => l = SwitchCases6
            /\ impl = "switch1" => l = SwitchCases1

C17_Witness ==
    /\ impl = "registry18"
    /\ listed # NoValue
    /\ Len(listed.tools) = 18
    /\ listed.tools[1] = "create_user" /\ listed.tools[18] = "get_coding_standards"

\* the dispatch stopped waiting on its timer and reported the failure
EndedOnTimeout(d) == TimerFiredFirst(d) /\ Done(d)

\* the tool function of d ran to completion
Completed(d) == call[d].state = "fulfilled"

\* C12: the timeout is a soft deadline that does not cancel the tool
\* function: the firing timer leaves the function's promise as it is, so
\* after the dispatch has ended on its timeout the function may still run
\* to completion, side effects included (a create_user that ended on its
\* timeout has its user inserted once userCreate completes), while the
\* late result is discarded: the caller's outcome stays what it was.
C12_SoftDeadline ==
    /\ [](\A d \in Dispatches :
            EndedOnTimeout(d) /\ Completed(d) /\ Inserts(hfn[d], call[d].value)
                => d \in users)
    /\ [][\A d \in Dispatches :
            /\ timer[d].state = "armed" /\ timer'[d].state = "fired"
                  => call'[d] = call[d]
            /\ EndedOnTimeout(d)
                  => /\ pc'[d] = pc[d] /\ response'[d] = response[d]
                     /\ raised'[d] = raised[d]
                     /\ call[d].state = "pending" =>
                           call'[d].state \in {"pending", "fulfilled", "rejected"}
                     /\ call[d].state = "pending" /\ call'[d].state = "rejected"
                           => call'[d].value \in {ErrorOf(m) : m \in HandlerMessages}
          ]_vars

C12_Witness ==
    \E d \in Dispatches :
        /\ Received(d) /\ request[d].name = "create_user"
        /\ EndedOnTimeout(d)
        /\ Completed(d) /\ call[d].value = TextEnvelope(OkText)
        /\ d \in users
        /\ settled[d] = << "timer", "call" >>

\* all that belongs to dispatch d: its position, its outcome, its race and
\* the two inputs of the race
Own(d) ==
    << pc[d], response[d], raised[d], caught[d], race[d], timer[d], call[d],
       settled[d], logs[d], path[d] >>

\* C13: dispatches in flight at the same time are independent under every
\* interleaving: each has its own timer and its own outcome, and a step of
\* one dispatch (its arrival, the settlement of its tool function or of its
\* timer) changes nothing that belongs to another dispatch.
C13_Independent ==
    [][\A d, e \in Dispatches :
          d # e /\ (call'[d] # call[d] \/ timer'[d] # timer[d])
              => Own(e)' = Own(e)]_vars

C13_Witness ==
    /\ pc[1] = "awaiting" /\ timer[1].state = "armed" /\ call[1].state = "pending"
    /\ pc[2] = "returned" /\ HandlerReturnedFirst(2) /\ timer[2].state = "fired"
    /\ request[1] = request[2]

\* d and e were sent the same {name, arguments}, and the tool function,
\* being pure, gave both the same value, before their timers fired
SameCall(d, e) ==
    /\ Done(d) /\ Done(e)
    /\ request[d] = request[e]
    /\ HandlerReturnedFirst(d) /\ HandlerReturnedFirst(e)
    /\ call[d].value = call[e].value

C20_DeleteNeedsConfirm ==
    \A c \in FileCalls :
        /\ removed[c] # {} => fargs[c].confirm = ConfirmTrue
        /\ fpc[c] # "idle" /\ fargs[c].confirm \in {ConfirmOmitted, ConfirmFalse} =>
              /\ removed[c] = {}
              /\ fpc[c] = "done"
              /\ fresult[c] = FileEnvelope("error", "Deletion requires confirmation",
                                           fargs[c].file_path)

\* C21: write_file creates a backup of an existing file before overwriting
\* it unless backup is false: after a write on an existing path with backup
\* omitted or true, a file other than the written one holds the previous
\* content.
C21_BackupBeforeOverwrite ==
    (/\ op.tool = "write_file" /\ op.failure = "none"
     /\ op.prev # Absent
     /\ op.backup \in {"omitted", "true"})
        => \E q \in op.wrote : q # op.path /\ disk[q] = op.prev

\* p lies below root
Inside(root, p) ==
    Len(p) > Len(root) /\ SubSeq(p, 1, Len(root)) = root

\* C22: for every file_path argument, the path that read_file, write_file,
\* delete_file and analyse_file operate on lies inside the project root.
C22_InsideProjectRoot ==
    op.tool \in FileTools => Inside(ProjectRoot, op.path)

\* C23: every tool function lets a failure of its underlying work reach
\* the gateway as a raised error with the same message, rather than
\* swallowing it and returning a value.
C23_FailuresPropagate ==
    op.failure # "none" => op.outcome = "raised" /\ op.message = op.failure

\* call c of an update or delete tool was made for an id without a record
MissingRecord(c) == dargs[c].tool \in ServiceTools /\ ~dargs[c].existed

SameDelete(c, e) ==
    /\ c # e
    /\ dargs[c].tool \in {"delete_user", "delete_task"}
    /\ dargs[e].tool = dargs[c].tool /\ dargs[e].id = dargs[c].id
    /\ dargs[c].existed /\ dargs[e].existed
    /\ dpc[c] = "done" /\ dpc[e] = "done"

\* C26: of two delete_user (or delete_task) calls for the same existing id
\* in flight together, under every interleaving exactly one deletes the
\* record and succeeds and the other fails with "User not found" / "Task
\* not found"; the repository delete is never called for a record that no
\* longer exists.
C26_OneDeleteWins ==
    /\ \A r \in repo : r.what = "delete" => r.existed
    /\ \A c, e \in DbCalls :
          SameDelete(c, e) /\ dresult[c].outcome = "returned" =>
              /\ dresult[e].outcome = "raised"
              /\ dresult[e].message = NotFound(dargs[e].table)

\* C27: get_user requires exactly one of id and email: with neither or
\* both it raises an error without querying the user service; with exactly
\* one, and no user matching, it returns the envelope with success: false
\* and user: null.
C27_ExactlyOneOf ==
    \A c \in DbCalls :
        dargs[c].tool = "get_user" /\ dpc[c] = "done" =>
            LET givenId == dargs[c].id # IdOmitted
                givenEmail == dargs[c].email # "undefined"
                noMatch == dargs[c].id \in {IdOmitted, 0, 2}
                             /\ dargs[c].email \in {"undefined", "", "b@x.io"}
            IN  /\ (givenId <=> givenEmail) =>
                      dresult[c].outcome = "raised" /\ ~dresult[c].queried
                /\ (givenId <=> ~givenEmail) /\ noMatch =>
                      /\ dresult[c].outcome = "returned"
                      /\ dresult[c].message = "success: false, user: null"

\* the depth the request asks for: max_depth, or 3 when omitted
AskedDepth == IF targs.max_depth.given THEN targs.max_depth.value ELSE 3

\* C28: get_file_structure never reads a directory at depth >= max_depth
\* below the start directory, for every given max_depth (3 when omitted):
\* a directory at that depth is reported as "..." and not read.
C28_DepthBounded ==
    /\ \A r \in tread : r.depth < AskedDepth
    /\ \A r \in tdots : r.depth >= AskedDepth /\ r \notin tread

\* C29: on every shutdown path (SIGINT, SIGTERM, uncaught exception) the
\* database disconnect is attempted and has settled before the process
\* exits; on SIGINT/SIGTERM the process then exits with code 0 whether the
\* disconnect succeeded or failed.
C29_DisconnectBeforeExit ==
    sexit.exited =>
        /\ sexit.on \in 1..Len(sdisc)
        /\ sdisc[sexit.on] \in {"resolved", "rejected"}
        /\ sevents[sexit.on] \in Signals => sexit.code = 0

\* the names a request can be made with
AllNames == RequestNames \cup Range(Registry18) \cup ObjectPrototypeKeys

\* the names the call-tool handler resolves to a tool function
Dispatchable == { n \in AllNames : Resolve(impl, tools, n).kind = "entry" }

\* the names the list-tools handler answers with
Advertised == Range(ListSchema(impl, tools))

\* C24: the set of names advertised by list-tools equals the set of names
\* that dispatch resolves to a tool function: every advertised name is
\* dispatched to the function registered with the descriptor of that name,
\* and no name is dispatched without being advertised.
C24_AdvertisedIsDispatchable ==
    server = "listening" =>
        /\ Advertised = Dispatchable
        /\ listed # NoValue => Range(listed.tools) = Dispatchable
        /\ \A k \in 1..Len(tools) :
              Resolve(impl, tools, tools[k].meta) =
                  [kind |-> "entry", fn |-> tools[k].fn]
        /\ \A d \in Dispatches :
              Received(d) =>
                  (invoked[d] = 1 <=> request[d].name \in Advertised)

C24_Witness ==
    /\ impl = "registry18"
    /\ listed # NoValue
    /\ Received(1) /\ request[1].name = "delete_user"
    /\ invoked[1] = 1 /\ hfn[1] = "deleteUser"
    /\ Received(2) /\ request[2].name = "constructor" /\ invoked[2] = 0

====
